---- MODULE Spec2Model ----
(***************************************************************************)
(* Model of the red-hat-boy character state machine (src/src/game.rs) and  *)
(* of Rect::intersects (src/src/engine.rs).                                *)
(*                                                                         *)
(* All f32 values the state machine ever holds are small whole numbers     *)
(* (0, -4, and -25..20), so f32 arithmetic is exact and is modelled with   *)
(* integers; `as i16` is modelled by F32AsI16 (truncating, saturating).    *)
(***************************************************************************)
EXTENDS Integers, Sequences, FiniteSets, TLC

VARIABLES
    state,      \* RedHatBoy.state : RedHatBoyStateMachine (tag + GameObject)
    prev,       \* history: the machine value the last operation was applied to
    lastOp,     \* history: the last operation applied ("init" before any)
    arg,        \* history: the y handed to the last operation if it was land
    track,      \* history: updates applied since the last slide / kill
    fault,      \* "none", or how an i16 overflow ended: "wrapped" / "panicked"
    animation,  \* RedHatBoy.animation: the name of the atlas it was built from
    rock,       \* WalkTheDogGame.rock: its bounding box
    velocity,   \* WalkTheDogGame.velocity (of the background)
    keystate,   \* the KeyState handed to the last simulation step
    stepLog,    \* history: what the last simulation step did, in order
    scenario,   \* history: steps run so far, all with only "ArrowRight"
                \*          held, or -1
    ra, rb,     \* Rect::intersects: the receiver and the argument
    hit,        \* Rect::intersects: the value returned
    rpc,        \* Rect::intersects: "input" before the call, "done" after
    loopPc,     \* GameLoop::start: where the start-up is, "armed" once the
                \*                  callback is requested
    now,        \* the browser's clock
    game_loop,  \* GameLoop: last_frame and accumulated_delta
    keyevents,  \* the channel prepare_input makes: key events not yet drained
    cbLog,      \* history: what the last render callback did, in order
    tally,      \* history: the events delivered, and counts of what ran
    sheetIn,    \* SpriteSheet::new: the cells of the atlas it is given
    sheetOut,   \* SpriteSheet::new: the adjustments and dimensions it stores
    sheetPc     \* SpriteSheet::new: "input" before the call, "done" after

vars == <<state, prev, lastOp, arg, track, fault,
         animation, rock, velocity, keystate, stepLog, scenario,
         ra, rb, hit, rpc,
         loopPc, now, game_loop, keyevents, cbLog, tally,
         sheetIn, sheetOut, sheetPc>>

charVars == <<state, prev, lastOp, arg, track, fault>>
gameVars == <<animation, rock, velocity, keystate, stepLog, scenario>>
rectVars == <<ra, rb, hit, rpc>>
loopVars == <<loopPc, now, game_loop, keyevents, cbLog, tally>>
sheetVars == <<sheetIn, sheetOut, sheetPc>>

----------------------------------------------------------------------------
(* Bounds of the model *)

MaxLeft == 8        \* updates are explored while position.x >= -MaxLeft
MinPosY == 400      \* ... and MinPosY <= position.y <= MaxPosY
MaxPosY == 900
MaxTrack == 31      \* updates counted after a slide / kill
MaxCoord == 2       \* rectangle origins are drawn from 0..MaxCoord
MaxSide == 3        \* rectangle sides are drawn from 1..MaxSide
EdgeUpdates == 8190 \* updates already applied when SpecEdge starts
MaxScenario == 25   \* steps counted with only "ArrowRight" held

LandYs == {470, 485}    \* the y values handed to land

----------------------------------------------------------------------------
(* Program constants *)

GRAVITY == 1
RUNNING_SPEED == 4
TERMINAL_VELOCITY == 20
JUMP_SPEED == 0 - 25
MOONWALK_SPEED == 4
SLIDE_OFFSET == 15
SPAWN_Y == 485

States == {"Idle", "Running", "Jumping", "Sliding", "Crashing", "GameOver"}
Events == {"run", "moonwalk", "jump", "slide", "kill"}

----------------------------------------------------------------------------
(* Machine integers *)

I16Min == 0 - 32768
I16Max == 32767

\* two's-complement i16 result of an integer operation (a build with overflow
\* checks panics instead; under Spec positions stay inside MaxLeft, MinPosY
\* and MaxPosY, far from either end of the i16 range)
WrapI16(n) == ((n + 32768) % 65536) - 32768

\* `f as i16` for a whole-valued f32: saturating
F32AsI16(f) == IF f < I16Min THEN I16Min ELSE IF f > I16Max THEN I16Max ELSE f

InI16(n) == n >= I16Min /\ n <= I16Max

Point(x, y) == [x |-> x, y |-> y]
Vector(x, y) == [x |-> x, y |-> y]

----------------------------------------------------------------------------
(* GameObject *)

GameObject_go_left_noclamp(o) ==
    [o EXCEPT !.velocity.x = o.velocity.x - MOONWALK_SPEED]

GameObject_go_left(o) ==
    LET vx == o.velocity.x - MOONWALK_SPEED
    IN  [o EXCEPT !.velocity.x = IF vx < 0 - MOONWALK_SPEED
                                 THEN 0 - MOONWALK_SPEED ELSE vx]

GameObject_set_on_zeroes_velocity(o, y) ==
    [o EXCEPT !.position.y = y, !.velocity.y = 0]

GameObject_set_on(o, y) == [o EXCEPT !.position.y = y]

GameObject_jump(o) == [o EXCEPT !.velocity.y = JUMP_SPEED]

GameObject_update_stale_velocity(o, frame_count) ==
    LET vy == IF o.velocity.y < TERMINAL_VELOCITY
              THEN o.velocity.y + GRAVITY ELSE o.velocity.y
    IN  [frame    |-> IF o.frame < (frame_count * 3) - 1 THEN o.frame + 1 ELSE 0,
         position |-> Point(WrapI16(o.position.x + F32AsI16(o.velocity.x)),
                            WrapI16(o.position.y + F32AsI16(o.velocity.y))),
         velocity |-> Vector(o.velocity.x, vy)]

GameObject_update_no_terminal(o, frame_count) ==
    LET vy == o.velocity.y + GRAVITY
    IN  [frame    |-> IF o.frame < (frame_count * 3) - 1 THEN o.frame + 1 ELSE 0,
         position |-> Point(WrapI16(o.position.x + F32AsI16(o.velocity.x)),
                            WrapI16(o.position.y + F32AsI16(vy))),
         velocity |-> Vector(o.velocity.x, vy)]

GameObject_update(o, frame_count) ==
    LET vy == IF o.velocity.y < TERMINAL_VELOCITY
              THEN o.velocity.y + GRAVITY ELSE o.velocity.y
    IN  [frame    |-> IF o.frame < (frame_count * 3) - 1 THEN o.frame + 1 ELSE 0,
         position |-> Point(WrapI16(o.position.x + F32AsI16(o.velocity.x)),
                            WrapI16(o.position.y + F32AsI16(vy))),
         velocity |-> Vector(o.velocity.x, vy)]

\* one of the two `+=` on the i16 position leaves the i16 range
GameObject_update_overflows(o) ==
    LET vy == IF o.velocity.y < TERMINAL_VELOCITY
              THEN o.velocity.y + GRAVITY ELSE o.velocity.y
    IN  \/ ~InI16(o.position.x + F32AsI16(o.velocity.x))
        \/ ~InI16(o.position.y + F32AsI16(vy))

GameObject_land_keeps_velocity(o) == o

GameObject_land(o) == [o EXCEPT !.velocity.y = 0]

GameObject_slide(o) ==
    [o EXCEPT !.position.y = WrapI16(o.position.y + SLIDE_OFFSET)]

GameObject_stand_up(o) ==
    [o EXCEPT !.position.y = WrapI16(o.position.y - SLIDE_OFFSET)]

GameObject_reset_frame(o) == [o EXCEPT !.frame = 0]

GameObject_kill(o) == [o EXCEPT !.velocity = Vector(0, 0)]

GameObject_animation_finished_late(o, frame_count) ==
    o.frame >= frame_count * 3

GameObject_animation_finished(o, frame_count) ==
    o.frame >= (frame_count * 3) - 1

----------------------------------------------------------------------------
(* RedHatBoyState<S>: construction and the From conversions *)

RedHatBoyState_new ==
    [frame |-> 0, position |-> Point(0, SPAWN_Y), velocity |-> Vector(0, 0)]

From_Idle_Running_speeds_up(o) ==
    [o EXCEPT !.velocity.x = IF o.velocity.x + 4 > 4 THEN 4 ELSE o.velocity.x + 4]

From_Idle_Running(o) == o

From_Running_Sliding(o) == GameObject_slide(GameObject_reset_frame(o))

From_Running_Jumping(o) == GameObject_jump(GameObject_reset_frame(o))

From_Running_Crashing(o) == GameObject_kill(GameObject_reset_frame(o))

From_Jumping_Running(o) == GameObject_land(GameObject_reset_frame(o))

From_Jumping_Crashing(o) == GameObject_kill(GameObject_reset_frame(o))

From_Sliding_Running_stays_low(o) == GameObject_reset_frame(o)

From_Sliding_Running(o) == GameObject_stand_up(GameObject_reset_frame(o))

From_Crashing_GameOver(o) == o

----------------------------------------------------------------------------
(* RedHatBoyStateMachine *)

Machine(tag, object) == [tag |-> tag, object |-> object]

frame_count(m) ==
    CASE m.tag = "Idle"     -> 10
      [] m.tag = "Running"  -> 8
      [] m.tag = "Jumping"  -> 12
      [] m.tag = "Sliding"  -> 5
      [] m.tag = "Crashing" -> 10
      [] m.tag = "GameOver" -> 29

RedHatBoyStateMachine_run_goes_right(m) ==
    LET faster(o) == [o EXCEPT !.velocity.x =
                         IF o.velocity.x + RUNNING_SPEED > RUNNING_SPEED
                         THEN RUNNING_SPEED ELSE o.velocity.x + RUNNING_SPEED]
    IN  IF m.tag \in {"Idle", "Running"}
        THEN Machine("Running", faster(m.object))
        ELSE m

RedHatBoyStateMachine_run(m) ==
    IF m.tag = "Idle" THEN Machine("Running", From_Idle_Running(m.object))
    ELSE m

RedHatBoyStateMachine_jump(m) ==
    IF m.tag = "Running" THEN Machine("Jumping", From_Running_Jumping(m.object))
    ELSE m

RedHatBoyStateMachine_slide(m) ==
    IF m.tag = "Running" THEN Machine("Sliding", From_Running_Sliding(m.object))
    ELSE m

RedHatBoyStateMachine_moonwalk(m) ==
    IF m.tag = "Running" THEN Machine("Running", GameObject_go_left(m.object))
    ELSE m

RedHatBoyStateMachine_kill_anywhere(m) ==
    IF m.tag = "GameOver" THEN m
    ELSE Machine("Crashing", From_Running_Crashing(m.object))

RedHatBoyStateMachine_kill(m) ==
    CASE m.tag = "Running" -> Machine("Crashing", From_Running_Crashing(m.object))
      [] m.tag = "Jumping" -> Machine("Crashing", From_Jumping_Crashing(m.object))
      [] OTHER -> m

\* land that leaves a Jumping character Jumping
RedHatBoyStateMachine_land_stays_jumping(m, on) ==
    Machine(m.tag, GameObject_set_on(m.object, on))

RedHatBoyStateMachine_land(m, on) ==
    IF m.tag = "Jumping"
    THEN Machine("Running", From_Jumping_Running(GameObject_set_on(m.object, on)))
    ELSE Machine(m.tag, GameObject_set_on(m.object, on))

RedHatBoyStateMachine_update_gameover_animates(m) ==
    LET fc == frame_count(m)
        o  == GameObject_update(m.object, fc)
    IN  CASE m.tag = "Sliding" ->
               IF GameObject_animation_finished(o, fc)
               THEN Machine("Running", From_Sliding_Running(o))
               ELSE Machine("Sliding", o)
          [] m.tag = "Crashing" ->
               IF GameObject_animation_finished(o, fc)
               THEN Machine("GameOver", From_Crashing_GameOver(o))
               ELSE Machine("Crashing", o)
          [] OTHER -> Machine(m.tag, o)

RedHatBoyStateMachine_update(m) ==
    LET fc == frame_count(m)
        o  == GameObject_update(m.object, fc)
    IN  CASE m.tag = "Jumping" -> Machine("Jumping", o)
          [] m.tag = "Sliding" ->
               IF GameObject_animation_finished(o, fc)
               THEN Machine("Running", From_Sliding_Running(o))
               ELSE Machine("Sliding", o)
          [] m.tag = "Idle" -> Machine("Idle", o)
          [] m.tag = "Running" -> Machine("Running", o)
          [] m.tag = "Crashing" ->
               IF GameObject_animation_finished(o, fc)
               THEN Machine("GameOver", From_Crashing_GameOver(o))
               ELSE Machine("Crashing", o)
          [] m.tag = "GameOver" ->
               Machine("GameOver", [m.object EXCEPT !.frame = fc])

\* an update of m overflows: in GameObject::update, or in the stand_up that
\* ends a slide
RedHatBoyStateMachine_update_overflows(m) ==
    LET fc == frame_count(m)
        o  == GameObject_update(m.object, fc)
    IN  /\ m.tag # "GameOver"
        /\ \/ GameObject_update_overflows(m.object)
           \/ /\ m.tag = "Sliding"
              /\ GameObject_animation_finished(o, fc)
              /\ ~InI16(o.position.y - SLIDE_OFFSET)

\* RedHatBoy::new
RedHatBoy_new == Machine("Idle", RedHatBoyState_new)

----------------------------------------------------------------------------
(* Rect *)

Rect(x, y, width, height) == [x |-> x, y |-> y, width |-> width, height |-> height]

Rect_intersects(self, rect) ==
    /\ self.x < rect.x + rect.width
    /\ self.x + self.height > rect.x
    /\ self.y < rect.y + rect.height
    /\ self.y + self.height > rect.y

Rects == { Rect(x, y, w, h) : x \in 0..MaxCoord, y \in 0..MaxCoord,
                              w \in 1..MaxSide, h \in 1..MaxSide }

----------------------------------------------------------------------------
(* SpriteSheet: the atlas and what SpriteSheet::new derives from it.  A     *)
(* cell name "{animation} ({n}).png" is modelled by the pair <<animation,   *)
(* n>>; Sheet.frames is a function from such pairs to the cell's            *)
(* sprite_source_size.                                                      *)

IDLE_ANIMATION == "Idle"
RUNNING_ANIMATION == "Run"
JUMPING_ANIMATION == "Jump"
SLIDING_ANIMATION == "Slide"
DEAD_ANIMATION == "Dead"

\* the animations WalkTheDogGame::initialize asks for
ANIMATIONS ==
    {IDLE_ANIMATION, RUNNING_ANIMATION, JUMPING_ANIMATION, SLIDING_ANIMATION,
     DEAD_ANIMATION}

SheetRect(x, y, w, h) == [x |-> x, y |-> y, w |-> w, h |-> h]

\* `u as i16` for a u16
U16AsI16(u) == IF u > I16Max THEN u - 65536 ELSE u

\* the last index of the run 1, 2, ... of cells present for animation a
RECURSIVE LastFrame(_, _, _)
LastFrame(frames, a, n) ==
    IF <<a, n + 1>> \in DOMAIN frames THEN LastFrame(frames, a, n + 1) ELSE n

SpriteSheet_new(frames, animations) ==
    LET present == { a \in animations : <<a, 1>> \in DOMAIN frames }
        first(a) == frames[<<a, 1>>]
    IN  [adjustments |->
           [a \in present |->
              [n \in 1..LastFrame(frames, a, 1) |->
                 IF n = 1 THEN Point(0, 0)
                 ELSE Point(WrapI16(U16AsI16(frames[<<a, n>>].x) - U16AsI16(first(a).x)),
                            WrapI16(U16AsI16(frames[<<a, n>>].y) - U16AsI16(first(a).y)))]],
         dimensions |->
           [a \in present |->
              [n \in 1..LastFrame(frames, a, 1) |->
                 IF n = 1 THEN [width |-> first(a).w, height |-> first(a).h]
                 ELSE [width |-> frames[<<a, n>>].w,
                       height |-> frames[<<a, n>>].x]]]]

NoFrames == [c \in {} |-> SheetRect(0, 0, 0, 0)]

\* The atlases the game is run with (rhb.json is an input of the program);
\* each has every frame the six states draw.

FramesIn(a) ==
    CASE a = IDLE_ANIMATION    -> 10
      [] a = RUNNING_ANIMATION -> 8
      [] a = JUMPING_ANIMATION -> 12
      [] a = SLIDING_ANIMATION -> 5
      [] a = DEAD_ANIMATION    -> 10

CellNames == { c \in ANIMATIONS \X (1..12) : c[2] <= FramesIn(c[1]) }

\* a character narrower and lower than the gap to the rock
NarrowSheet == [c \in CellNames |-> SheetRect(40, 8, 160, 136)]

\* frames trimmed differently from one another
TrimmedSheet ==
    [c \in CellNames |->
        SheetRect(30 + 2 * (c[2] % 3), 6 + (c[2] % 2),
                  150 - 2 * (c[2] % 3), 130 - (c[2] % 2))]

\* a character wide enough to reach over the rock and under the platform
WideSheet == [c \in CellNames |-> SheetRect(0, 0, 250, 100)]

\* a character taller than the gap to the rock is wide
TallSheet == [c \in CellNames |-> SheetRect(260, 0, 60, 260)]

SheetNames == {"narrow", "trimmed", "wide", "tall"}

\* what SpriteSheet::new stores for each atlas
NarrowStored == SpriteSheet_new(NarrowSheet, ANIMATIONS)
TrimmedStored == SpriteSheet_new(TrimmedSheet, ANIMATIONS)
WideStored == SpriteSheet_new(WideSheet, ANIMATIONS)
TallStored == SpriteSheet_new(TallSheet, ANIMATIONS)
NoneStored == SpriteSheet_new(NoFrames, ANIMATIONS)

Stored(name) ==
    CASE name = "narrow"  -> NarrowStored
      [] name = "trimmed" -> TrimmedStored
      [] name = "wide"    -> WideStored
      [] name = "tall"    -> TallStored
      [] OTHER            -> NoneStored


\* Animation::bounding_box_for: the stored offset and the stored dimensions
\* of frame `frame` (0-based) of the named animation
Animation_bounding_box_for(an, name, frame) ==
    Rect(Stored(an).adjustments[name][frame + 1].x,
         Stored(an).adjustments[name][frame + 1].y,
         Stored(an).dimensions[name][frame + 1].width,
         Stored(an).dimensions[name][frame + 1].height)

----------------------------------------------------------------------------
(* RedHatBoy and WalkTheDogGame: one simulation step *)

FLOOR == 600

\* the one platform WalkTheDogGame::initialize builds
Platforms ==
    << [position |-> Point(220, 350), bounding_box |-> Rect(0, 0, 384, 90)] >>

Platform_bounding_box(p) ==
    Rect(p.position.x, p.position.y, p.bounding_box.width, p.bounding_box.height)

RedHatBoyStateMachine_animation(m) ==
    CASE m.tag = "Idle"     -> IDLE_ANIMATION
      [] m.tag = "Running"  -> RUNNING_ANIMATION
      [] m.tag = "Jumping"  -> JUMPING_ANIMATION
      [] m.tag = "Sliding"  -> SLIDING_ANIMATION
      [] m.tag = "Crashing" -> DEAD_ANIMATION
      [] m.tag = "GameOver" -> DEAD_ANIMATION

RedHatBoy_bounding_box(an, m) ==
    LET bounding_box ==
            Animation_bounding_box_for(an, RedHatBoyStateMachine_animation(m),
                                       m.object.frame \div 3)
    IN  Rect(m.object.position.x + bounding_box.x,
             m.object.position.y + bounding_box.y,
             bounding_box.width, bounding_box.height)

RedHatBoy_collides_with(an, m, rect) ==
    Rect_intersects(RedHatBoy_bounding_box(an, m), rect)

RedHatBoy_landing(an, m) ==
    m.object.position.y + RedHatBoy_bounding_box(an, m).height > FLOOR

RedHatBoy_landing_on(an, m, rect) ==
    /\ Rect_intersects(RedHatBoy_bounding_box(an, m), rect)
    /\ m.object.position.y < rect.y

RedHatBoy_land_on(an, m, y) ==
    RedHatBoyStateMachine_land(m, F32AsI16(y - RedHatBoy_bounding_box(an, m).height))

\* a step in progress: the machine so far and the log of what was done
\* (each entry: the request, who made it, the machine it was made on, and for
\* a collision check the character's box and the obstacle's)
Did(c, op, by, m2, box, rect) ==
    [m   |-> m2,
     log |-> Append(c.log, [op |-> op, by |-> by, on |-> c.m,
                            box |-> box, rect |-> rect])]

NoRect == Rect(0, 0, 0, 0)

RedHatBoy_check_platform_collisions(an, c, platform) ==
    LET box == Platform_bounding_box(platform)
        own == RedHatBoy_bounding_box(an, c.m)
    IN  IF RedHatBoy_landing_on(an, c.m, box)
        THEN Did(c, "land", "platform",
                 RedHatBoy_land_on(an, c.m, platform.position.y), own, box)
        ELSE IF RedHatBoy_collides_with(an, c.m, box)
        THEN Did(c, "kill", "platform", RedHatBoyStateMachine_kill(c.m), own, box)
        ELSE Did(c, "none", "platform", c.m, own, box)

RECURSIVE CheckPlatforms(_, _, _, _)
CheckPlatforms(an, c, platforms, i) ==
    IF i > Len(platforms) THEN c
    ELSE CheckPlatforms(an, RedHatBoy_check_platform_collisions(an, c, platforms[i]),
                        platforms, i + 1)

\* F applied to the value of c (c is evaluated once)
Then(c, F(_)) == CHOOSE r \in { F(x) : x \in {c} } : TRUE

\* the step with the state-machine update run after the collision checks
WalkTheDogGame_update_checks_first(an, rk, m, keys) ==
    LET Right(c) == IF "ArrowRight" \in keys
                    THEN Did(c, "run", "key", RedHatBoyStateMachine_run(c.m),
                             NoRect, NoRect)
                    ELSE c
        Left(c)  == IF "ArrowLeft" \in keys
                    THEN Did(c, "moonwalk", "key",
                             RedHatBoyStateMachine_moonwalk(c.m), NoRect, NoRect)
                    ELSE c
        Space(c) == IF "Space" \in keys
                    THEN Did(c, "jump", "key", RedHatBoyStateMachine_jump(c.m),
                             NoRect, NoRect)
                    ELSE c
        Down(c)  == IF "ArrowDown" \in keys
                    THEN Did(c, "slide", "key", RedHatBoyStateMachine_slide(c.m),
                             NoRect, NoRect)
                    ELSE c
        Upd(c)   == Did(c, "update", "step", RedHatBoyStateMachine_update(c.m),
                        NoRect, NoRect)
        Plat(c)  == CheckPlatforms(an, c, Platforms, 1)
        Rock(c)  == Then(RedHatBoy_bounding_box(an, c.m),
                         LAMBDA own :
                            IF Rect_intersects(own, rk)
                            THEN Did(c, "kill", "rock",
                                     RedHatBoyStateMachine_kill(c.m), own, rk)
                            ELSE Did(c, "none", "rock", c.m, own, rk))
        Floor(c) == IF RedHatBoy_landing(an, c.m)
                    THEN Did(c, "land", "floor", RedHatBoy_land_on(an, c.m, FLOOR),
                             RedHatBoy_bounding_box(an, c.m), NoRect)
                    ELSE c
    IN  Then(Then(Then(Then(Then(Then(Then(Then([m |-> m, log |-> << >>],
            Right), Left), Space), Down), Plat), Rock), Floor), Upd)

\* WalkTheDogGame::update on the character: the keys held are applied, then
\* one update, then the collision checks
WalkTheDogGame_update(an, rk, m, keys) ==
    LET Right(c) == IF "ArrowRight" \in keys
                    THEN Did(c, "run", "key", RedHatBoyStateMachine_run(c.m),
                             NoRect, NoRect)
                    ELSE c
        Left(c)  == IF "ArrowLeft" \in keys
                    THEN Did(c, "moonwalk", "key",
                             RedHatBoyStateMachine_moonwalk(c.m), NoRect, NoRect)
                    ELSE c
        Space(c) == IF "Space" \in keys
                    THEN Did(c, "jump", "key", RedHatBoyStateMachine_jump(c.m),
                             NoRect, NoRect)
                    ELSE c
        Down(c)  == IF "ArrowDown" \in keys
                    THEN Did(c, "slide", "key", RedHatBoyStateMachine_slide(c.m),
                             NoRect, NoRect)
                    ELSE c
        Upd(c)   == Did(c, "update", "step", RedHatBoyStateMachine_update(c.m),
                        NoRect, NoRect)
        Plat(c)  == CheckPlatforms(an, c, Platforms, 1)
        Rock(c)  == Then(RedHatBoy_bounding_box(an, c.m),
                         LAMBDA own :
                            IF Rect_intersects(own, rk)
                            THEN Did(c, "kill", "rock",
                                     RedHatBoyStateMachine_kill(c.m), own, rk)
                            ELSE Did(c, "none", "rock", c.m, own, rk))
        Floor(c) == IF RedHatBoy_landing(an, c.m)
                    THEN Did(c, "land", "floor", RedHatBoy_land_on(an, c.m, FLOOR),
                             RedHatBoy_bounding_box(an, c.m), NoRect)
                    ELSE c
    IN  Then(Then(Then(Then(Then(Then(Then(Then([m |-> m, log |-> << >>],
            Right), Left), Space), Down), Upd), Plat), Rock), Floor)

\* WalkTheDogGame.velocity after a step
WalkTheDogGame_velocity(v, keys) ==
    IF "ArrowRight" \in keys THEN 0 - RUNNING_SPEED ELSE v

----------------------------------------------------------------------------
(* History bookkeeping *)

NoTrack == [op |-> "none", n |-> 0, y |-> 0, vy |-> 0]

\* the tracking record after operation `op` took machine m to machine m2
NextTrack(op, m, m2) ==
    CASE op = "slide" /\ m.tag = "Running" ->
             [op |-> "slide", n |-> 0, y |-> m.object.position.y,
              vy |-> m.object.velocity.y]
      [] op = "kill" /\ m.tag \in {"Running", "Jumping"} ->
             [op |-> "kill", n |-> 0, y |-> m.object.position.y,
              vy |-> m.object.velocity.y]
      [] op = "update" /\ track.op # "none" /\ track.n < MaxTrack ->
             [track EXCEPT !.n = track.n + 1]
      [] OTHER -> NoTrack

InBounds(m) ==
    /\ m.object.position.x >= 0 - MaxLeft
    /\ m.object.position.y >= MinPosY
    /\ m.object.position.y <= MaxPosY

Apply(op, y, m2) ==
    /\ InBounds(m2)
    /\ state' = m2
    /\ prev' = state
    /\ lastOp' = op
    /\ arg' = y
    /\ track' = NextTrack(op, state, m2)
    /\ UNCHANGED fault
    /\ UNCHANGED gameVars
    /\ UNCHANGED rectVars
    /\ UNCHANGED sheetVars
    /\ UNCHANGED loopVars

----------------------------------------------------------------------------
(* The character: Init and one action per operation of RedHatBoy *)

InitChar ==
    /\ state = RedHatBoy_new
    /\ prev = RedHatBoy_new
    /\ lastOp = "init"
    /\ arg = 0
    /\ track = NoTrack
    /\ fault = "none"

InitRectIdle ==
    /\ ra = Rect(0, 0, 1, 1)
    /\ rb = Rect(0, 0, 1, 1)
    /\ hit = FALSE
    /\ rpc = "idle"

InitGameIdle ==
    /\ animation = "none"
    /\ rock = Rect(0, 0, 0, 0)
    /\ velocity = 0
    /\ keystate = {}
    /\ stepLog = << >>
    /\ scenario = 0 - 1

NoTally ==
    [init |-> "pending", inits |-> 0, start |-> 0, callbacks |-> 0,
     drains |-> 0, steps |-> 0, draws |-> 0, delivered |-> << >>, drained |-> 0]

InitSheetIdle ==
    /\ sheetIn = NoFrames
    /\ sheetOut = SpriteSheet_new(NoFrames, {})
    /\ sheetPc = "idle"

InitLoopIdle ==
    /\ InitSheetIdle
    /\ loopPc = "off"
    /\ now = 0
    /\ game_loop = [last_frame |-> 0, accumulated_delta |-> 0]
    /\ keyevents = << >>
    /\ cbLog = << >>
    /\ tally = NoTally

Init == InitChar /\ InitGameIdle /\ InitRectIdle /\ InitLoopIdle

Run == Apply("run", 0, RedHatBoyStateMachine_run(state))

Moonwalk == Apply("moonwalk", 0, RedHatBoyStateMachine_moonwalk(state))

Jump == Apply("jump", 0, RedHatBoyStateMachine_jump(state))

Slide == Apply("slide", 0, RedHatBoyStateMachine_slide(state))

Kill == Apply("kill", 0, RedHatBoyStateMachine_kill(state))

Land(y) == Apply("land", y, RedHatBoyStateMachine_land(state, y))

Update == Apply("update", 0, RedHatBoyStateMachine_update(state))

Next ==
    \/ Run
    \/ Moonwalk
    \/ Jump
    \/ Slide
    \/ Kill
    \/ \E y \in LandYs : Land(y)
    \/ Update

Spec == Init /\ [][Next]_vars

----------------------------------------------------------------------------
(* Rect::intersects applied to bounded rectangles *)

InitRect ==
    /\ InitChar
    /\ InitGameIdle
    /\ ra \in Rects
    /\ rb \in Rects
    /\ hit = FALSE
    /\ rpc = "input"
    /\ InitLoopIdle

Intersect ==
    /\ rpc = "input"
    /\ hit' = Rect_intersects(ra, rb)
    /\ rpc' = "done"
    /\ UNCHANGED <<ra, rb>>
    /\ UNCHANGED charVars
    /\ UNCHANGED gameVars
    /\ UNCHANGED loopVars
    /\ UNCHANGED sheetVars

NextRect == Intersect

SpecRect == InitRect /\ [][NextRect]_vars

----------------------------------------------------------------------------
(* The character after a long moonwalk, where position.x nears the low end *)
(* of the i16 range.  EdgeStart is the state reached from RedHatBoy_new by *)
(* run, moonwalk and then EdgeUpdates rounds of update followed by         *)
(* land(SPAWN_Y): each round moves position.x by -4 and advances the       *)
(* Running frame, velocity.y has long reached the terminal velocity, and   *)
(* land puts position.y back.  An overflowing `+=` panics in a build with  *)
(* overflow checks and wraps in one without; both outcomes are modelled.   *)
(* No other operation can overflow while position.y <= MaxPosY.            *)

EdgeStart ==
    Machine("Running",
            [frame    |-> EdgeUpdates % (8 * 3),
             position |-> Point(0 - (MOONWALK_SPEED * EdgeUpdates), SPAWN_Y),
             velocity |-> Vector(0 - MOONWALK_SPEED, TERMINAL_VELOCITY)])

InitEdge ==
    /\ state = EdgeStart
    /\ prev = EdgeStart
    /\ lastOp = "init"
    /\ arg = 0
    /\ track = NoTrack
    /\ fault = "none"
    /\ InitGameIdle
    /\ InitRectIdle
    /\ InitLoopIdle

InBoundsEdge(m) ==
    /\ m.object.position.y >= MinPosY
    /\ m.object.position.y <= MaxPosY

ApplyEdge(op, y, m2, f) ==
    /\ fault = "none"
    /\ InBoundsEdge(m2)
    /\ state' = m2
    /\ prev' = state
    /\ lastOp' = op
    /\ arg' = y
    /\ track' = NextTrack(op, state, m2)
    /\ fault' = f
    /\ UNCHANGED gameVars
    /\ UNCHANGED rectVars
    /\ UNCHANGED sheetVars
    /\ UNCHANGED loopVars

EdgeRun == ApplyEdge("run", 0, RedHatBoyStateMachine_run(state), "none")

EdgeMoonwalk ==
    ApplyEdge("moonwalk", 0, RedHatBoyStateMachine_moonwalk(state), "none")

EdgeJump == ApplyEdge("jump", 0, RedHatBoyStateMachine_jump(state), "none")

EdgeSlide == ApplyEdge("slide", 0, RedHatBoyStateMachine_slide(state), "none")

EdgeKill == ApplyEdge("kill", 0, RedHatBoyStateMachine_kill(state), "none")

EdgeLand(y) == ApplyEdge("land", y, RedHatBoyStateMachine_land(state, y), "none")

EdgeUpdate ==
    /\ ~RedHatBoyStateMachine_update_overflows(state)
    /\ ApplyEdge("update", 0, RedHatBoyStateMachine_update(state), "none")

\* the overflowing update of a build without overflow checks
EdgeUpdateWraps ==
    /\ RedHatBoyStateMachine_update_overflows(state)
    /\ ApplyEdge("update", 0, RedHatBoyStateMachine_update(state), "wrapped")

\* the overflowing update of a build with overflow checks: the panic leaves
\* RedHatBoy.state as it was and nothing runs afterwards
EdgeUpdatePanics ==
    /\ RedHatBoyStateMachine_update_overflows(state)
    /\ ApplyEdge("update", 0, state, "panicked")

NextEdge ==
    \/ EdgeRun
    \/ EdgeMoonwalk
    \/ EdgeJump
    \/ EdgeSlide
    \/ EdgeKill
    \/ \E y \in LandYs : EdgeLand(y)
    \/ EdgeUpdate
    \/ EdgeUpdateWraps
    \/ EdgeUpdatePanics

SpecEdge == InitEdge /\ [][NextEdge]_vars

----------------------------------------------------------------------------
(* The game: simulation steps under any held keys, for each atlas *)

KeyCodes == {"ArrowRight", "ArrowLeft", "Space", "ArrowDown"}

\* Image::bounding_box of the rock: its position and the size of Stone.png
Rocks == { Rect(200, 546, 90, 54) }

InitGame ==
    /\ InitChar
    /\ animation \in SheetNames
    /\ rock \in Rocks
    /\ velocity = 0
    /\ keystate = {}
    /\ stepLog = << >>
    /\ scenario = 0
    /\ InitRectIdle
    /\ InitLoopIdle

GameStep(keys) ==
    /\ keystate' = keys
    /\ \E c \in { WalkTheDogGame_update(animation, rock, state, keys) } :
        /\ c.m.object.position.x >= 0 - MaxLeft
        /\ state' = c.m
        /\ prev' = state
        /\ lastOp' = "step"
        /\ velocity' = WalkTheDogGame_velocity(velocity, keys)
        /\ stepLog' = c.log
        /\ scenario' = IF /\ scenario >= 0
                          /\ scenario < MaxScenario
                          /\ keys = {"ArrowRight"}
                       THEN scenario + 1 ELSE 0 - 1
    /\ UNCHANGED <<arg, track, fault, animation, rock>>
    /\ UNCHANGED rectVars
    /\ UNCHANGED sheetVars
    /\ UNCHANGED loopVars

NextGame == \E keys \in SUBSET KeyCodes : GameStep(keys)

SpecGame == InitGame /\ [][NextGame]_vars

\* the atlases the game is run with when steps keep running
FairSheetNames == {"narrow", "tall"}

InitGameFair ==
    /\ InitGame
    /\ animation \in FairSheetNames

\* the game with simulation steps that keep running while one can run: the
\* browser keeps calling the render callback, which runs the steps due
SpecGameFair == InitGameFair /\ [][NextGame]_vars /\ WF_vars(NextGame)

----------------------------------------------------------------------------
(* GameLoop::start, the render callback and the key-event channel          *)
(* (src/src/engine.rs).  Time is counted in thirds of a millisecond, which *)
(* makes FRAME_SIZE (1/60 s) the whole number 50.                          *)

FRAME_SIZE == 50

MaxTime == 260
MaxEvents == 3
MaxCallbacks == 5

\* the clock values start() can be called at, and the time that can pass
\* between two render callbacks
StartTimes == {0, 70}
Deltas == {0, 20, 50, 110}

\* the key codes the keyboard delivers
LoopCodes == {"ArrowRight", "Space"}

KeyPress == [kind : {"KeyDown", "KeyUp"}, code : LoopCodes]

KeyState_new == {}

KeyState_set_pressed(pressed_keys, code) == pressed_keys \cup {code}

KeyState_set_released(pressed_keys, code) == pressed_keys \ {code}

\* process_input that takes one event from the channel and stops
process_input_one_event(keys, receiver) ==
    IF receiver = << >>
    THEN [state |-> keys, receiver |-> receiver]
    ELSE [state    |-> IF Head(receiver).kind = "KeyUp"
                       THEN KeyState_set_released(keys, Head(receiver).code)
                       ELSE KeyState_set_pressed(keys, Head(receiver).code),
          receiver |-> Tail(receiver)]

\* process_input: takes events from the channel, oldest first, until it is
\* empty
RECURSIVE process_input(_, _)
process_input(keys, receiver) ==
    IF receiver = << >>
    THEN [state |-> keys, receiver |-> receiver]
    ELSE process_input(IF Head(receiver).kind = "KeyUp"
                       THEN KeyState_set_released(keys, Head(receiver).code)
                       ELSE KeyState_set_pressed(keys, Head(receiver).code),
                       Tail(receiver))

\* the cells of each atlas
Sheet(name) ==
    CASE name = "narrow"  -> NarrowSheet
      [] name = "trimmed" -> TrimmedSheet
      [] name = "wide"    -> WideSheet
      [] name = "tall"    -> TallSheet
      [] OTHER            -> NoFrames

\* SpriteSheet::draw returns (TRUE) or panics because the cell is not in the
\* atlas (FALSE)
SpriteSheet_draw(an, name, frame) == <<name, frame + 1>> \in DOMAIN Sheet(an)

RedHatBoy_draw(an, m) ==
    SpriteSheet_draw(an, RedHatBoyStateMachine_animation(m), m.object.frame \div 3)

\* one entry of the log of a callback: what ran and the KeyState at the time
Entry(op, keys) == [op |-> op, keys |-> keys]

\* the body of the while loop: one game.update and FRAME_SIZE less to go
GameLoop_step(an, rk, c, keys) ==
    Then(WalkTheDogGame_update(an, rk, c.game.m, keys),
         LAMBDA s :
            [game  |-> [m   |-> s.m,
                        v   |-> WalkTheDogGame_velocity(c.game.v, keys),
                        log |-> s.log],
             acc   |-> c.acc - FRAME_SIZE,
             trace |-> Append(c.trace, Entry("update", keys))])

\* the while loop with the input processed again before every game.update
RECURSIVE GameLoop_steps_each_with_input(_, _, _, _)
GameLoop_steps_each_with_input(an, rk, c, keys) ==
    IF c.acc > FRAME_SIZE
    THEN Then(GameLoop_step(an, rk,
                  [c EXCEPT !.trace = Append(@, Entry("input", keys))], keys),
              LAMBDA c2 : GameLoop_steps_each_with_input(an, rk, c2, keys))
    ELSE c

\* the while loop running a step also when exactly FRAME_SIZE is left
RECURSIVE GameLoop_steps_inclusive(_, _, _, _)
GameLoop_steps_inclusive(an, rk, c, keys) ==
    IF c.acc >= FRAME_SIZE
    THEN Then(GameLoop_step(an, rk, c, keys),
              LAMBDA c2 : GameLoop_steps_inclusive(an, rk, c2, keys))
    ELSE c

\* while game_loop.accumulated_delta > FRAME_SIZE { ... }
RECURSIVE GameLoop_steps(_, _, _, _)
GameLoop_steps(an, rk, c, keys) ==
    IF c.acc > FRAME_SIZE
    THEN Then(GameLoop_step(an, rk, c, keys),
              LAMBDA c2 : GameLoop_steps(an, rk, c2, keys))
    ELSE c

\* the closure given to create_raf_closure, drawing only when a step ran
GameLoop_callback_draws_after_steps(an, rk, gl, keys, receiver, game, perf) ==
    Then(process_input(keys, receiver), LAMBDA inp :
    Then(GameLoop_steps(an, rk,
            [game  |-> game,
             acc   |-> gl.accumulated_delta + (perf - gl.last_frame),
             trace |-> << Entry("input", inp.state) >>],
            inp.state), LAMBDA c :
    Then(IF c.acc # gl.accumulated_delta + (perf - gl.last_frame)
         THEN Append(c.trace, Entry("draw", inp.state))
         ELSE c.trace, LAMBDA drew :
    Then(RedHatBoy_draw(an, c.game.m), LAMBDA drawn :
        [game_loop |-> [last_frame |-> perf, accumulated_delta |-> c.acc],
         keystate  |-> inp.state,
         receiver  |-> inp.receiver,
         game      |-> c.game,
         drawn     |-> drawn,
         trace     |-> IF drawn THEN Append(drew, Entry("raf", inp.state))
                       ELSE drew]))))

\* the closure given to create_raf_closure, called with the time `perf`:
\* the input is processed, the steps due are run, the game is drawn and the
\* next callback is requested (unless the draw panicked)
GameLoop_callback(an, rk, gl, keys, receiver, game, perf) ==
    Then(process_input(keys, receiver), LAMBDA inp :
    Then(GameLoop_steps(an, rk,
            [game  |-> game,
             acc   |-> gl.accumulated_delta + (perf - gl.last_frame),
             trace |-> << Entry("input", inp.state) >>],
            inp.state), LAMBDA c :
    Then(Append(c.trace, Entry("draw", inp.state)), LAMBDA drew :
    Then(RedHatBoy_draw(an, c.game.m), LAMBDA drawn :
        [game_loop |-> [last_frame |-> perf, accumulated_delta |-> c.acc],
         keystate  |-> inp.state,
         receiver  |-> inp.receiver,
         game      |-> c.game,
         drawn     |-> drawn,
         trace     |-> IF drawn THEN Append(drew, Entry("raf", inp.state))
                       ELSE drew]))))

\* how many entries of a callback's log are `op`
Count(trace, op) == Cardinality({ i \in 1..Len(trace) : trace[i].op = op })

InitLoop ==
    /\ InitChar
    /\ animation = "narrow"
    /\ rock \in Rocks
    /\ velocity = 0
    /\ keystate = KeyState_new
    /\ stepLog = << >>
    /\ scenario = 0 - 1
    /\ InitRectIdle
    /\ loopPc = "start"
    /\ now \in StartTimes
    /\ game_loop = [last_frame |-> 0, accumulated_delta |-> 0]
    /\ keyevents = << >>
    /\ cbLog = << >>
    /\ tally = NoTally
    /\ InitSheetIdle

\* a part of start() that leaves the game as it is
StartUp(op, pc2, tally2) ==
    /\ loopPc' = pc2
    /\ tally' = tally2
    /\ lastOp' = op
    /\ prev' = state
    /\ UNCHANGED <<state, arg, track, fault>>
    /\ UNCHANGED gameVars
    /\ UNCHANGED rectVars
    /\ UNCHANGED sheetVars
    /\ UNCHANGED <<now, keyevents, cbLog>>

\* prepare_input()? : the channel is made and the handlers are installed
PrepareInput ==
    /\ loopPc = "start"
    /\ StartUp("prepare_input", "initialize", tally)
    /\ UNCHANGED game_loop

\* prepare_input()? when browser::canvas() fails
PrepareInputFails ==
    /\ loopPc = "start"
    /\ StartUp("prepare_input", "aborted", tally)
    /\ UNCHANGED game_loop

\* game.initialize().await? when initialize returns an error and the error
\* is dropped
InitializeFails_ignored ==
    /\ loopPc = "initialize"
    /\ StartUp("initialize", "loaded",
               [tally EXCEPT !.init = "failed", !.inits = @ + 1])
    /\ UNCHANGED game_loop

\* game.initialize().await? when initialize returns Ok
InitializeOk ==
    /\ loopPc = "initialize"
    /\ StartUp("initialize", "loaded",
               [tally EXCEPT !.init = "ok", !.inits = @ + 1])
    /\ UNCHANGED game_loop

\* game.initialize().await? when initialize returns an error
InitializeFails ==
    /\ loopPc = "initialize"
    /\ StartUp("initialize", "aborted",
               [tally EXCEPT !.init = "failed", !.inits = @ + 1])
    /\ UNCHANGED game_loop

\* the rest of start(): the GameLoop is made with the time now, the KeyState
\* is new and the first callback is requested
Arm ==
    /\ loopPc = "loaded"
    /\ StartUp("arm", "armed", [tally EXCEPT !.start = now])
    /\ game_loop' = [last_frame |-> now, accumulated_delta |-> 0]

\* the rest of start() when browser::now(), browser::context() or
\* request_animation_frame fails
ArmFails ==
    /\ loopPc = "loaded"
    /\ StartUp("arm", "aborted", tally)
    /\ UNCHANGED game_loop

\* the onkeydown / onkeyup handler: the event is sent into the channel
KeyEvent(evt) ==
    /\ loopPc \in {"initialize", "loaded", "armed"}
    /\ Len(tally.delivered) < MaxEvents
    /\ keyevents' = Append(keyevents, evt)
    /\ tally' = [tally EXCEPT !.delivered = Append(@, evt)]
    /\ lastOp' = "key"
    /\ prev' = state
    /\ UNCHANGED <<state, arg, track, fault>>
    /\ UNCHANGED gameVars
    /\ UNCHANGED rectVars
    /\ UNCHANGED sheetVars
    /\ UNCHANGED <<loopPc, now, game_loop, cbLog>>

\* the browser calls the render callback, d after the previous one
Callback(d) ==
    /\ loopPc = "armed"
    /\ now + d <= MaxTime
    /\ tally.callbacks < MaxCallbacks
    /\ \E r \in { GameLoop_callback(animation, rock, game_loop, keystate, keyevents,
                                    [m |-> state, v |-> velocity, log |-> stepLog],
                                    now + d) } :
        /\ now' = now + d
        /\ game_loop' = r.game_loop
        /\ keystate' = r.keystate
        /\ keyevents' = r.receiver
        /\ state' = r.game.m
        /\ velocity' = r.game.v
        /\ stepLog' = r.game.log
        /\ cbLog' = r.trace
        /\ loopPc' = IF r.drawn THEN "armed" ELSE "panicked"
        /\ tally' = [tally EXCEPT
                        !.callbacks = @ + 1,
                        !.drains    = @ + Count(r.trace, "input"),
                        !.steps     = @ + Count(r.trace, "update"),
                        !.draws     = @ + Count(r.trace, "draw"),
                        !.drained   = @ + (Len(keyevents) - Len(r.receiver))]
    /\ lastOp' = "callback"
    /\ prev' = state
    /\ UNCHANGED <<arg, track, fault, animation, rock, scenario>>
    /\ UNCHANGED rectVars
    /\ UNCHANGED sheetVars

NextLoop ==
    \/ PrepareInput
    \/ PrepareInputFails
    \/ InitializeOk
    \/ InitializeFails
    \/ Arm
    \/ ArmFails
    \/ \E evt \in KeyPress : KeyEvent(evt)
    \/ \E d \in Deltas : Callback(d)

SpecLoop == InitLoop /\ [][NextLoop]_vars

----------------------------------------------------------------------------
(* SpriteSheet::new applied to bounded atlases *)

MaxFrame == 3

\* the animations asked for, and the cells an atlas can have for them
SheetAnimations == {IDLE_ANIMATION, RUNNING_ANIMATION}
SheetCells == SheetAnimations \X (1..MaxFrame)

\* the sprite_source_size values a cell can have
SheetRects ==
    { SheetRect(0, 0, 5, 7), SheetRect(3, 1, 6, 8), SheetRect(40000, 2, 5, 7) }

\* the atlases: any of the cells may be missing
Sheets == UNION { [cells -> SheetRects] : cells \in SUBSET SheetCells }

InitSheet ==
    /\ InitChar
    /\ InitGameIdle
    /\ InitRectIdle
    /\ loopPc = "off"
    /\ now = 0
    /\ game_loop = [last_frame |-> 0, accumulated_delta |-> 0]
    /\ keyevents = << >>
    /\ cbLog = << >>
    /\ tally = NoTally
    /\ sheetIn \in Sheets
    /\ sheetOut = SpriteSheet_new(NoFrames, {})
    /\ sheetPc = "input"

NewSheet ==
    /\ sheetPc = "input"
    /\ sheetOut' = SpriteSheet_new(sheetIn, SheetAnimations)
    /\ sheetPc' = "done"
    /\ UNCHANGED sheetIn
    /\ UNCHANGED charVars
    /\ UNCHANGED gameVars
    /\ UNCHANGED rectVars
    /\ UNCHANGED loopVars

NextSheet == NewSheet

SpecSheet == InitSheet /\ [][NextSheet]_vars

----------------------------------------------------------------------------
(* Properties *)

Obj == state.object
PrevObj == prev.object

\* the (event, state) pairs the transition table lists
Listed ==
    { <<"run", "Idle">>, <<"run", "Running">>, <<"moonwalk", "Running">>,
      <<"jump", "Running">>, <<"slide", "Running">>,
      <<"kill", "Running">>, <<"kill", "Jumping">> }

\* C1: an event the transition table does not list for the state it is
\* applied in returns the same variant with an identical GameObject.
C1_UnlistedEventIsNoOp ==
    (lastOp \in Events /\ <<lastOp, prev.tag>> \notin Listed) => state = prev

C1_Witness ==
    /\ lastOp = "kill"
    /\ prev.tag = "Sliding"
    /\ PrevObj.frame > 0
    /\ PrevObj.velocity.y > 0
    /\ state.tag = "Sliding"

\* C2: in every reachable state, frame < frameCount(state) * 3.
C2_FrameBelowFrameCount == Obj.frame < frame_count(state) * 3

\* C3 (as stated): run in Idle or Running yields Running with velocity.x
\* increased by RUN_SPEED, clamped to at most RUN_SPEED.
C3_RunAddsRunSpeed ==
    (lastOp = "run" /\ prev.tag \in {"Idle", "Running"}) =>
        /\ state.tag = "Running"
        /\ Obj.velocity.x = IF PrevObj.velocity.x + RUNNING_SPEED > RUNNING_SPEED
                            THEN RUNNING_SPEED
                            ELSE PrevObj.velocity.x + RUNNING_SPEED

\* C3 (amended): run in Idle or Running yields Running with the GameObject
\* (frame, position, velocity) unchanged; velocity.x is not increased.
C3_RunKeepsObject ==
    (lastOp = "run" /\ prev.tag \in {"Idle", "Running"}) =>
        /\ state.tag = "Running"
        /\ Obj = PrevObj

C3_Witness ==
    /\ lastOp = "run"
    /\ prev.tag = "Idle"
    /\ PrevObj.frame > 0
    /\ state.tag = "Running"

\* C4: in every reachable state -RUN_SPEED <= velocity.x <= RUN_SPEED.
C4_VelocityXClamped ==
    /\ Obj.velocity.x >= 0 - RUNNING_SPEED
    /\ Obj.velocity.x <= RUNNING_SPEED

C4_Witness ==
    /\ lastOp = "moonwalk"
    /\ prev.tag = "Running"
    /\ PrevObj.velocity.x = 0 - RUNNING_SPEED
    /\ Obj.velocity.x = 0 - RUNNING_SPEED

\* distance fallen in n updates by an object whose vertical velocity is v
RECURSIVE FallDistance(_, _)
FallDistance(v, n) ==
    IF n = 0 THEN 0
    ELSE LET v1 == IF v < TERMINAL_VELOCITY THEN v + GRAVITY ELSE v
         IN  v1 + FallDistance(v1, n - 1)

SlideStarts ==
    track.n = 0 =>
        /\ state.tag = "Sliding"
        /\ Obj.frame = 0
        /\ Obj.position.y = track.y + SLIDE_OFFSET

\* C5 (as stated): slide from Running yields Sliding with frame 0 and
\* position.y + 15; the character stays Sliding for 13 updates and the 14th
\* returns it to Running with position.y equal to its value before the slide.
C5_SlideRestoresY ==
    track.op = "slide" =>
        /\ SlideStarts
        /\ track.n \in 1..13 => state.tag = "Sliding"
        /\ track.n = 14 => (state.tag = "Running" /\ Obj.position.y = track.y)

\* C5 (amended): as stated, except that the 14th update leaves position.y at
\* its value before the slide plus the distance fallen under gravity in the
\* 14 updates: the +15 offset is undone, the earlier value is not restored.
C5_SlideCompletes ==
    track.op = "slide" =>
        /\ SlideStarts
        /\ track.n \in 1..13 => state.tag = "Sliding"
        /\ track.n = 14 =>
              /\ state.tag = "Running"
              /\ Obj.frame = 0
              /\ Obj.position.y = track.y + FallDistance(track.vy, 14)
              /\ Obj.position.y > track.y

C5_Witness ==
    /\ track.op = "slide"
    /\ track.n = 14
    /\ state.tag = "Running"

KillStarts ==
    track.n = 0 =>
        /\ state.tag = "Crashing"
        /\ Obj.frame = 0
        /\ Obj.velocity = Vector(0, 0)

\* C6 (as stated): kill from Running or Jumping yields Crashing with frame 0
\* and velocity (0,0); the character is still Crashing after fewer than 30
\* updates and GameOver after exactly 30.
C6_GameOverAfter30 ==
    track.op = "kill" =>
        /\ KillStarts
        /\ track.n < 30 => state.tag = "Crashing"
        /\ track.n = 30 => state.tag = "GameOver"

\* C6 (amended): as stated, with 29 = frameCount(Crashing)*3 - 1 in place of
\* 30: still Crashing after fewer than 29 updates, GameOver after exactly 29
\* updates and after every later one.
C6_GameOverAfter29 ==
    track.op = "kill" =>
        /\ KillStarts
        /\ track.n < 29 => state.tag = "Crashing"
        /\ track.n >= 29 => state.tag = "GameOver"

C6_Witness ==
    /\ track.op = "kill"
    /\ track.n = 29
    /\ state.tag = "GameOver"
    /\ prev.tag = "Crashing"

\* C7: GameOver is entered only from Crashing, by an update that finds the
\* death animation finished; once GameOver every operation leaves the
\* character GameOver, and frame = 29 after every update.
C7_GameOverTerminal ==
    /\ (state.tag = "GameOver" /\ prev.tag # "GameOver") =>
          /\ prev.tag = "Crashing"
          /\ lastOp = "update"
          /\ GameObject_animation_finished(Obj, frame_count(prev))
    /\ (prev.tag = "GameOver" /\ lastOp # "init") => state.tag = "GameOver"
    /\ (state.tag = "GameOver" /\ lastOp = "update") =>
          Obj.frame = frame_count(state)

C7_Witness ==
    /\ prev.tag = "GameOver"
    /\ lastOp = "update"
    /\ state.tag = "GameOver"
    /\ Obj.velocity.y > 0

\* C8: jump in Running yields Jumping with frame 0 and velocity.y = -25;
\* land(y) in Jumping yields Running with velocity.y = 0 and position.y = y.
C8_JumpThenLand ==
    /\ (lastOp = "jump" /\ prev.tag = "Running") =>
          /\ state.tag = "Jumping"
          /\ Obj.frame = 0
          /\ Obj.velocity.y = 0 - 25
    /\ (lastOp = "land" /\ prev.tag = "Jumping") =>
          /\ state.tag = "Running"
          /\ Obj.velocity.y = 0
          /\ Obj.position.y = arg

C8_Witness ==
    /\ lastOp = "land"
    /\ prev.tag = "Jumping"
    /\ PrevObj.velocity.y # 0
    /\ PrevObj.position.y # arg
    /\ state.tag = "Running"

\* C9: land(y) in a state other than Jumping keeps the variant and changes
\* only position.y, which becomes y.
C9_LandElsewhereSetsOnlyY ==
    (lastOp = "land" /\ prev.tag # "Jumping") =>
        /\ state.tag = prev.tag
        /\ Obj.frame = PrevObj.frame
        /\ Obj.position.x = PrevObj.position.x
        /\ Obj.position.y = arg
        /\ Obj.velocity = PrevObj.velocity

C9_Witness ==
    /\ lastOp = "land"
    /\ prev.tag = "Sliding"
    /\ PrevObj.frame > 0
    /\ PrevObj.velocity.y > 0
    /\ PrevObj.position.y # arg
    /\ Obj.position.y = arg

\* the projections of a and b overlap on both axes, touching edges excluded
Overlap(a, b) ==
    /\ a.x < b.x + b.width
    /\ a.x + a.width > b.x
    /\ a.y < b.y + b.height
    /\ a.y + a.height > b.y

\* C10: a.intersects(b) is true iff the projections of a and b overlap on
\* both the x axis and the y axis.
C10_IntersectsIffOverlap == rpc = "done" => (hit <=> Overlap(ra, rb))

\* the machine after n updates and nothing else, or NoMachine when one of them
\* changes the variant
NoMachine == Machine("none", RedHatBoyState_new)

RECURSIVE UpdatesInState(_, _)
UpdatesInState(m, n) ==
    IF n = 0 THEN m
    ELSE LET m1 == RedHatBoyStateMachine_update(m)
         IN  IF m1.tag # m.tag THEN NoMachine ELSE UpdatesInState(m1, n - 1)

\* C18: frameCount(state)*3 consecutive updates during which no transition
\* happens leave the character in the same state with the frame it had before.
C18_FrameWrapsAround ==
    LET after == UpdatesInState(state, frame_count(state) * 3)
    IN  after # NoMachine => (after.tag = state.tag /\ after.object.frame = Obj.frame)

FrameAdvanced(m) ==
    IF m.object.frame < frame_count(m) * 3 - 1 THEN m.object.frame + 1 ELSE 0

\* C19 (as stated): an update in Idle or Running keeps the state, moves the
\* position by the velocity the character had before the update, advances
\* the frame with wraparound and leaves the velocity unchanged.
C19_UpdateKeepsVelocity ==
    (lastOp = "update" /\ prev.tag \in {"Idle", "Running"}) =>
        /\ state.tag = prev.tag
        /\ Obj.position.x = PrevObj.position.x + PrevObj.velocity.x
        /\ Obj.position.y = PrevObj.position.y + PrevObj.velocity.y
        /\ Obj.frame = FrameAdvanced(prev)
        /\ Obj.velocity = PrevObj.velocity

\* C19 (amended): an update in Idle or Running keeps the state, first adds
\* GRAVITY to velocity.y when velocity.y < 20 (in these states too, not only
\* in Jumping), then moves the position by the velocity so updated, and
\* advances the frame with wraparound; velocity.x is unchanged.
C19_UpdateAppliesGravity ==
    (lastOp = "update" /\ prev.tag \in {"Idle", "Running"}) =>
        /\ state.tag = prev.tag
        /\ Obj.velocity.x = PrevObj.velocity.x
        /\ Obj.velocity.y = IF PrevObj.velocity.y < TERMINAL_VELOCITY
                            THEN PrevObj.velocity.y + GRAVITY
                            ELSE PrevObj.velocity.y
        /\ Obj.position.x = PrevObj.position.x + Obj.velocity.x
        /\ Obj.position.y = PrevObj.position.y + Obj.velocity.y
        /\ Obj.frame = FrameAdvanced(prev)

C19_Witness ==
    /\ lastOp = "update"
    /\ prev.tag = "Running"
    /\ PrevObj.velocity.x < 0
    /\ PrevObj.velocity.y < TERMINAL_VELOCITY
    /\ Obj.velocity.y = PrevObj.velocity.y + GRAVITY
    /\ Obj.position.x < PrevObj.position.x

\* C20: in every reachable state -25 <= velocity.y <= 20.
C20_VelocityYBounded ==
    /\ Obj.velocity.y <= TERMINAL_VELOCITY
    /\ Obj.velocity.y >= JUMP_SPEED

C20_Witness ==
    /\ lastOp = "update"
    /\ PrevObj.velocity.y = TERMINAL_VELOCITY
    /\ Obj.velocity.y = TERMINAL_VELOCITY
    /\ Obj.position.y = PrevObj.position.y + TERMINAL_VELOCITY

\* C17: every update and transition completes with position.x and
\* position.y inside the i16 range: no step overflows.
C17_NoOverflow == fault = "none"

\* the collision checks the last step made against platforms
PlatformChecks == { i \in 1..Len(stepLog) : stepLog[i].by = "platform" }

\* C11: for each obstacle checked the character requests a landing iff its
\* box intersects the obstacle and the top of its box is above the
\* obstacle's top, kill iff the boxes intersect and that does not hold, and
\* neither when they do not intersect.
C11_CollisionClassified ==
    \A i \in PlatformChecks :
        LET e == stepLog[i]
            landing == Overlap(e.box, e.rect) /\ e.box.y < e.rect.y
        IN  /\ e.op = "land" <=> landing
            /\ e.op = "kill" <=> (Overlap(e.box, e.rect) /\ ~landing)

\* every box of the Run animation, drawn at x = 0, ends left of x = limit
\* and is less than limit high
RunBoxesWithin(an, limit) ==
    \A n \in 0..(FramesIn(RUNNING_ANIMATION) - 1) :
        LET b == Animation_bounding_box_for(an, RUNNING_ANIMATION, n)
        IN  b.x + b.width < limit /\ b.x + b.height < limit

\* C12 (as stated): after 24 steps from the initial state with only
\* "ArrowRight" held the character is Running at position.x = 96, frame 0.
C12_ScenarioReaches96 ==
    scenario = 24 =>
        /\ state.tag = "Running"
        /\ Obj.position.x = 24 * 4
        /\ Obj.frame = 24 % (8 * 3)

\* C12 (amended): after each of those steps, the 24th included, a character
\* whose Run boxes stay clear of the rock is Running at position.x = 0 with
\* the frame the number of steps modulo 24 (0 after the 24th): run does not
\* move the character, the background velocity is -RUNNING_SPEED.
C12_ScenarioStaysAtOrigin ==
    (scenario \in 1..24 /\ RunBoxesWithin(animation, rock.x)) =>
        /\ state.tag = "Running"
        /\ Obj.position.x = 0
        /\ Obj.frame = scenario % (8 * 3)
        /\ velocity = 0 - RUNNING_SPEED

C12_Witness ==
    /\ scenario = 24
    /\ RunBoxesWithin(animation, rock.x)
    /\ state.tag = "Running"
    /\ keystate = {"ArrowRight"}

\* the positions of the entries `op` in the log of the last callback
At(op) == { i \in 1..Len(cbLog) : cbLog[i].op = op }

\* C13: every render callback performs exactly one draw, after all the
\* simulation steps of that callback, and then re-arms the next callback,
\* whether zero, one or many steps ran in it.
C13_OneDrawThenRearm ==
    lastOp = "callback" =>
        /\ Cardinality(At("draw")) = 1
        /\ \A i \in At("update") : \A j \in At("draw") : i < j
        /\ At("raf") = {Len(cbLog)}
        /\ At("draw") = {Len(cbLog) - 1}
        /\ loopPc = "armed"
        /\ tally.draws = tally.callbacks

C13_Witness ==
    /\ lastOp = "callback"
    /\ Cardinality(At("update")) = 2
    /\ tally.callbacks >= 3
    /\ tally.steps < tally.callbacks

\* C14 (as stated): the input is drained once per simulation step, so the
\* number of drains equals the number of simulation steps.
C14_DrainPerStep ==
    /\ tally.drains = tally.steps
    /\ lastOp = "callback" => \A i \in At("update") : cbLog[i - 1].op = "input"

\* C14 (amended): the input is drained once per render callback, before the
\* steps of that callback, so the number of drains equals the number of
\* callbacks and every step of a callback sees the KeyState of that drain.
C14_DrainPerCallback ==
    /\ tally.drains = tally.callbacks
    /\ lastOp = "callback" =>
        /\ At("input") = {1}
        /\ \A i \in At("update") : cbLog[i].keys = cbLog[1].keys

C14_Witness ==
    /\ lastOp = "callback"
    /\ Cardinality(At("update")) = 2
    /\ cbLog[1].keys = {"Space"}
    /\ tally.drains = 1

\* the kind of the last event in `events` for `code`, "none" if there is none
RECURSIVE LastKind(_, _)
LastKind(events, code) ==
    IF events = << >> THEN "none"
    ELSE IF events[Len(events)].code = code THEN events[Len(events)].kind
    ELSE LastKind(SubSeq(events, 1, Len(events) - 1), code)

\* C15: key events are buffered in FIFO order, none lost or reordered (the
\* channel holds exactly the events delivered and not yet drained, in the
\* order they came); the KeyState changes only in the drain of a callback
\* and is the same for everything the callback runs after it; after a
\* drain the channel is empty and a key is held iff the last event
\* delivered for its code is a KeyDown.
C15_DrainIsFifo ==
    /\ [](/\ loopPc \in {"initialize", "loaded", "armed"} =>
                keyevents = SubSeq(tally.delivered, tally.drained + 1,
                                   Len(tally.delivered))
          /\ lastOp = "callback" =>
                /\ keyevents = << >>
                /\ \A i \in 1..Len(cbLog) : cbLog[i].keys = keystate
                /\ \A code \in LoopCodes :
                      code \in keystate <=>
                          LastKind(tally.delivered, code) = "KeyDown")
    /\ [][keystate' # keystate => lastOp' = "callback"]_vars

C15_Witness ==
    /\ lastOp = "callback"
    /\ tally.delivered = << [kind |-> "KeyDown", code |-> "ArrowRight"],
                            [kind |-> "KeyDown", code |-> "Space"],
                            [kind |-> "KeyUp", code |-> "ArrowRight"] >>
    /\ tally.drained = 3
    /\ keystate = {"Space"}
    /\ tally.callbacks >= 2

\* C16: initialize() is awaited exactly once before the first callback is
\* armed; if it fails start-up aborts and the loop is never armed, so no
\* update and no draw ever runs; none runs before initialize() succeeded.
C16_InitializeBeforeArm ==
    /\ tally.inits <= 1
    /\ loopPc \in {"loaded", "armed", "panicked"} =>
            tally.inits = 1 /\ tally.init = "ok"
    /\ tally.init # "ok" =>
            tally.callbacks = 0 /\ tally.steps = 0 /\ tally.draws = 0
    /\ tally.init = "failed" => loopPc = "aborted"

C16_Witness ==
    /\ tally.init = "failed"
    /\ loopPc = "aborted"
    /\ tally.delivered # << >>

\* C23: after every callback 0 <= accumulated_delta <= FRAME_SIZE, and the
\* steps run so far times FRAME_SIZE plus accumulated_delta is the time from
\* the start of the loop to that callback; a callback whose accumulated time
\* is exactly FRAME_SIZE runs no step.
C23_AccumulatorAccountsForTime ==
    loopPc \in {"armed", "panicked"} =>
        /\ game_loop.accumulated_delta >= 0
        /\ game_loop.accumulated_delta <= FRAME_SIZE
        /\ tally.steps * FRAME_SIZE + game_loop.accumulated_delta
               = game_loop.last_frame - tally.start
        /\ game_loop.last_frame = now
        /\ (/\ lastOp = "callback"
            /\ game_loop.accumulated_delta
                   + Cardinality(At("update")) * FRAME_SIZE = FRAME_SIZE)
               => At("update") = {}

C23_Witness ==
    /\ lastOp = "callback"
    /\ game_loop.accumulated_delta = FRAME_SIZE
    /\ At("update") = {}
    /\ tally.steps >= 2
    /\ tally.start > 0

\* the place of a log entry in the order of WalkTheDogGame::update
Rank(e) ==
    CASE e.by = "key" /\ e.op = "run"      -> 1
      [] e.by = "key" /\ e.op = "moonwalk" -> 2
      [] e.by = "key" /\ e.op = "jump"     -> 3
      [] e.by = "key" /\ e.op = "slide"    -> 4
      [] e.by = "step"                     -> 5
      [] e.by = "platform"                 -> 6
      [] e.by = "rock"                     -> 7
      [] e.by = "floor"                    -> 8
      [] OTHER                             -> 0

\* the event a held key is applied as
KeyOp(code) ==
    CASE code = "ArrowRight" -> "run"
      [] code = "ArrowLeft"  -> "moonwalk"
      [] code = "Space"      -> "jump"
      [] code = "ArrowDown"  -> "slide"

\* C22: within a simulation step the held keys are applied as events (run,
\* moonwalk, jump, slide, in this order), then exactly one update runs, then
\* the collision checks request land / kill (platforms, rock, floor); no
\* land or kill comes before the update and no input event after it.
C22_StepOrder ==
    lastOp = "step" =>
        /\ \A i \in 1..Len(stepLog) : Rank(stepLog[i]) > 0
        /\ \A i \in 1..Len(stepLog) : \A j \in 1..Len(stepLog) :
              i < j => Rank(stepLog[i]) < Rank(stepLog[j])
        /\ Cardinality({ i \in 1..Len(stepLog) : stepLog[i].op = "update" }) = 1
        /\ { stepLog[i].op : i \in { k \in 1..Len(stepLog) : stepLog[k].by = "key" } }
              = { KeyOp(code) : code \in keystate }
        /\ \A i \in 1..Len(stepLog) :
              /\ stepLog[i].op \in {"land", "kill"} => Rank(stepLog[i]) > 5
              /\ stepLog[i].op \in {"run", "moonwalk", "jump", "slide"}
                    => Rank(stepLog[i]) < 5

C22_Witness ==
    /\ lastOp = "step"
    /\ keystate = KeyCodes
    /\ Len(stepLog) = 8
    /\ stepLog[8].op = "land"
    /\ stepLog[7].op = "kill"

\* the frames of animation a found by walking the indices 1, 2, ... of the
\* atlas up to the first one missing
Walked(a) == { n \in 1..MaxFrame : \A k \in 1..n : <<a, k>> \in DOMAIN sheetIn }

\* C25: for every animation whose frame 1 is in the atlas and every frame N
\* walked, the sheet stores the offset sourceSize(N).origin -
\* sourceSize(1).origin and the size (sourceSize(N).w, sourceSize(N).h);
\* frame 1 has the offset (0, 0) and the size of sourceSize(1).
C25_StoredOffsetsAndSizes ==
    sheetPc = "done" =>
        \A a \in SheetAnimations :
            <<a, 1>> \in DOMAIN sheetIn =>
                /\ a \in DOMAIN sheetOut.adjustments
                /\ a \in DOMAIN sheetOut.dimensions
                /\ DOMAIN sheetOut.adjustments[a] = Walked(a)
                /\ DOMAIN sheetOut.dimensions[a] = Walked(a)
                /\ \A n \in Walked(a) :
                      /\ sheetOut.adjustments[a][n] =
                            Point(sheetIn[<<a, n>>].x - sheetIn[<<a, 1>>].x,
                                  sheetIn[<<a, n>>].y - sheetIn[<<a, 1>>].y)
                      /\ sheetOut.dimensions[a][n] =
                            [width  |-> sheetIn[<<a, n>>].w,
                             height |-> sheetIn[<<a, n>>].h]

\* the machine the i-th request of the last step left behind
After(i) == IF i < Len(stepLog) THEN stepLog[i + 1].on ELSE state

\* the top of the surface the i-th request of the last step landed on
SurfaceTop(i) == IF stepLog[i].by = "floor" THEN FLOOR ELSE stepLog[i].rect.y

\* C21: after a landing on a surface whose top is at y, position.y plus the
\* height of the bounding box of the state and frame the character is then
\* in equals y, also when the landing takes Jumping to Running.
C21_LandingAligned ==
    \A i \in 1..Len(stepLog) :
        stepLog[i].op = "land" =>
            After(i).object.position.y
                + RedHatBoy_bounding_box(animation, After(i)).height
              = SurfaceTop(i)

\* C24: if simulation steps keep running, a character that is Jumping
\* eventually is not Jumping (it has landed and is Running, or was killed
\* and is Crashing).
C24_JumpingEnds ==
    ([]<><<NextGame>>_vars) => ((state.tag = "Jumping") ~> (state.tag # "Jumping"))

C24_Witness ==
    /\ lastOp = "step"
    /\ prev.tag = "Jumping"
    /\ state.tag = "Running"
    /\ stepLog[Len(stepLog)].op = "land"
    /\ stepLog[Len(stepLog)].by = "floor"

====
